---- MODULE Spec2Model ----
(***************************************************************************)
(* A model of the audio-to-visual pipeline of music-animation-generator:   *)
(* the AudioAnalyzer, the useAudioAnalyzer / useAnimationEngine hooks, the *)
(* AnimationEngine (frame scheduler and effect renderer) and MarblePhysics.*)
(*                                                                         *)
(* Units.  Levels, positions and velocities are fixed-point numbers in     *)
(* hundredths (0.1 is 10, 9.8 is 980); time steps are in hundredths of a   *)
(* second.  A product of two scaled numbers is divided by 100, rounding    *)
(* towards minus infinity (\div).                                          *)
(*                                                                         *)
(* Browser.  requestAnimationFrame callbacks registered before a display   *)
(* refresh run in that refresh, in registration order, without any other   *)
(* script running between them; callbacks registered during a refresh run  *)
(* in the next one.  Handles are positive; a handle that no variable holds *)
(* and no registration carries is reused, which no program can observe.    *)
(*                                                                         *)
(* React.  A state set from a callback (setAudioData) is seen by the        *)
(* component at its next render; the effects that depend on it run after   *)
(* the callbacks of the refresh have run.  A state holds one value.         *)
(***************************************************************************)
EXTENDS Integers, Sequences, FiniteSets

VARIABLES
  \* ---- browser
  rafPending,        \* registrations for the next refresh: Seq of [id, fn, inst]
  frameQueue,        \* callbacks of the refresh in progress, not yet run
  inFrame,           \* a display refresh is in progress
  \* ---- AudioAnalyzer, one per useAudioAnalyzer() call
  source,            \* inst -> "null" | "fresh" | "started" | "stopped"
  anIsPlaying,       \* inst -> AudioAnalyzer.isPlaying
  anAnimationId,     \* inst -> AudioAnalyzer.animationId (0 is null)
  frequencyData,     \* inst -> contents of the Float32Array frequencyData
  timeDomainData,    \* inst -> contents of the Float32Array timeDomainData
  buffer,            \* inst -> the file whose decoded audio source.buffer is
  decoding,          \* inst -> files of the loadAudioFile calls awaiting their decode
  \* ---- useAudioAnalyzer
  hookAudioData,     \* inst -> React state audioData (NULL or a vector)
  hookIsPlaying,     \* inst -> React state isPlaying
  animationFrameRef, \* inst -> animationFrameRef.current (0 is null)
  hookError,         \* inst -> React state error ("null" or the failure)
  hookDuration,      \* inst -> React state duration
  audioEffectDue,    \* AnimationCanvas has a new audioData to run its effect on
  \* ---- AnimationEngine and useAnimationEngine
  animationId,       \* AnimationEngine.animationId (0 is null)
  audioData,         \* AnimationEngine.audioData (NULL or a vector)
  lastTimeAge,       \* time since lastTime was stored, at the current refresh
  effects,           \* AnimationEngine.effects, in insertion order
  scene,             \* the effect objects and marble meshes in THREE.Scene
  engineIsPlaying,   \* useAnimationEngine's React state isPlaying
  configEffects,     \* contents of the array AnimationEngine.config.effects
  refEffects,        \* contents of the array configRef.current.effects
  sameConfig,        \* configRef.current is the object AnimationEngine.config
  sameArray,         \* the two effects arrays are one array
  \* ---- MarblePhysics
  marbles,           \* MarblePhysics.marbles: Seq of marble records
  marbleMeshes,      \* MarblePhysics.marbleMeshes: Seq of mesh numbers
  marbleCount,       \* createMarble calls so far
  trailPoints,       \* Seq of positions
  keys,              \* key index -> [isHit, hitAge]
  synthReady,        \* XylophoneSynth has its audioContext and gainNode
  \* ---- observation
  frameTicks,        \* ticks executed in the current (or last) refresh
  framePhysics,      \* physics steps executed in the current (or last) refresh
  published,         \* the vector most recently handed to updateAudioData
  lastRun            \* what the most recent handler did

browserVars  == <<rafPending, frameQueue, inFrame>>
analyzerVars == <<source, anIsPlaying, anAnimationId, frequencyData, timeDomainData,
                  buffer, decoding>>
hookVars     == <<hookAudioData, hookIsPlaying, animationFrameRef, audioEffectDue,
                  hookError, hookDuration>>
engineVars   == <<animationId, audioData, lastTimeAge, effects, scene, engineIsPlaying>>
configVars   == <<configEffects, refEffects, sameConfig, sameArray>>
physicsVars  == <<marbles, marbleMeshes, marbleCount, trailPoints, keys, synthReady>>
obsVars      == <<frameTicks, framePhysics, published, lastRun>>
vars == <<browserVars, analyzerVars, hookVars, engineVars, configVars,
          physicsVars, obsVars>>

NULL == [null |-> TRUE]

\* frequencyData and timeDomainData before initAudioContext has allocated
\* them (null): the arrays it allocates are never empty.
NoArray == <<>>

\* The two useAudioAnalyzer() instances of the application: App's and
\* AnimationCanvas's.
Inst == {"app", "canvas"}

(***************************************************************************)
(* Bounds and inputs                                                       *)
(***************************************************************************)
MaxPending == 3   \* registrations alive at once
MaxMarbles == 1   \* marbles created in a run
MaxObjects == 2   \* effect objects in the scene at once
MaxConfig  == 2   \* entries of configRef.current.effects
MaxTrail   == 2   \* trail positions recorded in a run
MaxCreated == 2   \* createMarble calls made by the callers of MarblePhysics
MaxLoads   == 2   \* loadAudioFile calls awaiting their decode at once
MaxLoops   == 4   \* registrations alive at once under the transport controls

\* Spectra the analyser node may deliver (ten bins) and time-domain windows.
Silence == <<0, 0, 0, 0, 0, 0, 0, 0, 0, 0>>
Middy   == <<20, 40, -40, 40, 40, 20, 20, 20, 20, 20>>
Buffers == {Silence, Middy}
Quiet   == <<0, 0, 0, 0>>
Loud    == <<40, -40, 40, -40>>
TimeBuffers == {Quiet, Loud}

\* Values of Math.random() - 0.5 and the interval between two refreshes.
Rands    == {49}
FrameDts == {100}

(***************************************************************************)
(* Arithmetic.  NaN is what JavaScript's 0/0 yields; it poisons sums and   *)
(* products and makes every comparison false.                              *)
(***************************************************************************)
NaN == -999999

Abs(a) == IF a = NaN THEN NaN ELSE IF a < 0 THEN -a ELSE a
Plus(a, b) == IF a = NaN \/ b = NaN THEN NaN ELSE a + b
\* The product of two numbers in hundredths, in hundredths.
Times(a, b) == IF a = NaN \/ b = NaN THEN NaN ELSE (a * b) \div 100
Gt(a, b) == a # NaN /\ b # NaN /\ a > b
Lt(a, b) == a # NaN /\ b # NaN /\ a < b
Geq(a, b) == a # NaN /\ b # NaN /\ a >= b
Leq(a, b) == a # NaN /\ b # NaN /\ a <= b
Min(a, b) == IF a = NaN \/ b = NaN THEN NaN ELSE IF a < b THEN a ELSE b
ISqrt(n) == CHOOSE r \in 0..n : r * r <= n /\ (r + 1) * (r + 1) > n

RECURSIVE SumAbs(_, _, _)
\* sum of |data[i]| over the 0-based indices lo <= i < hi
SumAbs(data, lo, hi) ==
  IF lo >= hi THEN 0 ELSE Abs(data[lo + 1]) + SumAbs(data, lo + 1, hi)

RECURSIVE SumSq(_, _)
SumSq(data, n) == IF n = 0 THEN 0 ELSE data[n] * data[n] + SumSq(data, n - 1)

(***************************************************************************)
(* AudioAnalyzer: feature extraction                                       *)
(***************************************************************************)
BeatThreshold == 30

\* calculateFrequencyBand: the mean magnitude over start%..end% of the buffer
calculateFrequencyBand(data, start, end) ==
  LET length     == Len(data)
      startIndex == (start * length) \div 100
      endIndex   == (end * length) \div 100
  IN  IF endIndex = startIndex THEN NaN
      ELSE SumAbs(data, startIndex, endIndex) \div (endIndex - startIndex)

calculateRMS(data) ==
  IF Len(data) = 0 THEN NaN ELSE ISqrt(SumSq(data, Len(data)) \div Len(data))

detectBeat(volume) == Gt(volume, BeatThreshold)

\* An AudioData object a caller of the engine builds around its own array.
OwnVector(f, t) ==
  LET volume == calculateRMS(t)
  IN  [ live        |-> FALSE,
        inst        |-> "canvas",
        data        |-> f,
        bassLevel   |-> calculateFrequencyBand(f, 0, 10),
        midLevel    |-> calculateFrequencyBand(f, 10, 50),
        trebleLevel |-> calculateFrequencyBand(f, 50, 100),
        volume      |-> volume,
        beat        |-> detectBeat(volume) ]

\* The contents of audioData.frequencyData when it is read.
FrequencyDataOf(v) == IF v.live THEN frequencyData[v.inst] ELSE v.data

(***************************************************************************)
(* MarblePhysics.  A marble is [id, x, y, vx, vy, bounceCount]; the third  *)
(* axis, which no test of the code reads, is left out.  The state after a  *)
(* call is [marbles, meshes, count, trail, keys, scene, notes, retired,    *)
(* synth, ctx], notes being the XylophoneSynth.playNote calls made, in     *)
(* order, each with the marble that struck, the velocity.y it arrived with *)
(* and whether the synth ran its initAudioContext again, and retired the   *)
(* marbles the call spliced out, each with its position.y and mesh; synth  *)
(* tells that the synth has its context, ctx that one can be had now, and  *)
(* tested are the positions the collision test was made at.                *)
(* A key is [isHit, hitAge], hitAge being Date.now() - hitTime in          *)
(* hundredths of a second, kept up to HitAnimation + 1.                    *)
(***************************************************************************)
KeyCount       == 7
KeyWidth       == 150
KeyHeight      == 30
KeyY           == 0
MarbleRadius   == 30
Gravity        == -980
Friction       == 98
BounceDamping  == 70
FloorY         == -1000
TrailCapacity  == 100
HitAnimation   == 50
SpawnThreshold == 10
MidThreshold   == 30
MaxVelocity    == 100

KeyX(k) == ((k - 1) * 2 - 6) * 100
MarbleMesh(n) == [kind |-> "marble", n |-> n]

\* getFrequencyLevel: MarblePhysics' own band mean over the array it is given
getFrequencyLevel(data, startPercent, endPercent) ==
  LET length     == Len(data)
      startIndex == (startPercent * length) \div 100
      endIndex   == (endPercent * length) \div 100
  IN  IF endIndex = startIndex THEN NaN
      ELSE SumAbs(data, startIndex, endIndex) \div (endIndex - startIndex)

\* The band levels applyAudioInfluence derives from the array.
PhysicsBands(data) ==
  [ bassLevel   |-> getFrequencyLevel(data, 0, 10),
    midLevel    |-> getFrequencyLevel(data, 10, 50),
    trebleLevel |-> getFrequencyLevel(data, 50, 100) ]

\* applyAudioInfluence, r being Math.random() - 0.5
applyAudioInfluence(m, data, r) ==
  LET b == PhysicsBands(data)
  IN  [m EXCEPT !.vx = Plus(m.vx, Times(Times(r, b.bassLevel), 10)),
                !.vy = IF Gt(b.midLevel, MidThreshold)
                         THEN Plus(m.vy, Times(b.midLevel, 50))
                         ELSE m.vy]

\* velocity += acceleration * dt; velocity *= friction; position += velocity * dt
Integrate(m, dt) ==
  LET vx == Times(m.vx, Friction)
      vy == Times(Plus(m.vy, Times(Gravity, dt)), Friction)
  IN  [m EXCEPT !.vx = vx, !.vy = vy,
                !.x = Plus(m.x, Times(vx, dt)),
                !.y = Plus(m.y, Times(vy, dt))]

\* The overlap test of checkKeyCollisions.
Collides(m, k) ==
  /\ Geq(m.x, KeyX(k) - KeyWidth \div 2)
  /\ Leq(m.x, KeyX(k) + KeyWidth \div 2)
  /\ Leq(m.y, KeyY + KeyHeight \div 2 + MarbleRadius)
  /\ Geq(m.y, KeyY - KeyHeight \div 2 - MarbleRadius)

\* playNote: the strike velocity is read from the last marble of the array.
playNote(ms, k) ==
  LET vy  == Abs(ms[Len(ms)].vy)
      raw == IF Len(ms) = 0 \/ vy = NaN THEN 0 ELSE vy
  IN  [key |-> k, velocity |-> Min(MaxVelocity, raw \div 10)]

\* XylophoneSynth.playNote: without a context or gain node it runs
\* initAudioContext again, and sounds the note if it has them then.
synthPlayNote(ready, ctx) ==
  [init |-> ~ready, ready |-> ready \/ ctx, sounded |-> ready \/ ctx]

handleKeyCollision_keepHeight(st, i, k, r) ==
  LET m  == st.marbles[i]
      ms == [st.marbles EXCEPT ![i].vy = Times(Abs(m.vy), BounceDamping)]
  IN  [st EXCEPT
         !.keys    = [st.keys EXCEPT ![k] = [isHit |-> TRUE, hitAge |-> 0]],
         !.notes   = Append(st.notes,
                       [key |-> k, velocity |-> playNote(ms, k).velocity,
                        marble |-> m.id, arrival |-> m.vy,
                        init |-> synthPlayNote(st.synth, st.ctx).init]),
         !.synth   = synthPlayNote(st.synth, st.ctx).ready,
         !.marbles = [ms EXCEPT ![i].bounceCount = m.bounceCount + 1]]

\* handleKeyCollision of marble i with key k, r being Math.random() - 0.5
handleKeyCollision(st, i, k, r) ==
  LET m       == st.marbles[i]
      bounced == [m EXCEPT !.vy = Times(Abs(m.vy), BounceDamping),
                           !.y  = KeyY + KeyHeight \div 2 + MarbleRadius,
                           !.vx = Plus(m.vx, Times(r, 200))]
      ms      == [st.marbles EXCEPT ![i] = bounced]
  IN  [st EXCEPT
         !.keys    = [st.keys EXCEPT ![k] = [isHit |-> TRUE, hitAge |-> 0]],
         !.notes   = Append(st.notes,
                       [key |-> k, velocity |-> playNote(ms, k).velocity,
                        marble |-> m.id, arrival |-> m.vy,
                        init |-> synthPlayNote(st.synth, st.ctx).init]),
         !.synth   = synthPlayNote(st.synth, st.ctx).ready,
         !.marbles = [ms EXCEPT ![i].bounceCount = bounced.bounceCount + 1]]

RECURSIVE checkKeyCollisions(_, _, _, _)
\* The keys from k on, in index order.
checkKeyCollisions(st, i, k, r) ==
  IF k > KeyCount THEN st
  ELSE checkKeyCollisions(
         IF Collides(st.marbles[i], k) THEN handleKeyCollision(st, i, k, r) ELSE st,
         i, k + 1, r)

RemoveAt_first(seq, i) == Tail(seq)

RemoveAt_keep(seq, i) == seq

RemoveAt(seq, i) == SubSeq(seq, 1, i - 1) \o SubSeq(seq, i + 1, Len(seq))

pushTrail_dropNewest(trail, p) ==
  IF Len(trail) >= TrailCapacity THEN trail ELSE Append(trail, p)

\* trailPoints.push(position); if (trailPoints.length > 100) trailPoints.shift()
pushTrail(trail, p) ==
  LET pushed == Append(trail, p)
  IN  IF Len(pushed) > TrailCapacity THEN Tail(pushed) ELSE pushed

\* if (audioData) this.applyAudioInfluence(marble, audioData)
Influenced(m, hasAudio, data, ra) ==
  IF hasAudio THEN applyAudioInfluence(m, data, ra) ELSE m

\* this.trailPoints.push(marble.position.clone()), with the eviction
Trailed(s, i) ==
  [s EXCEPT !.trail = pushTrail(s.trail, [x |-> s.marbles[i].x, y |-> s.marbles[i].y])]

Retire_keepMesh(s, i) ==
  IF Lt(s.marbles[i].y, FloorY)
    THEN [s EXCEPT !.scene   = s.scene \ {MarbleMesh(s.meshes[i])},
                   !.retired = Append(s.retired,
                                 [id |-> s.marbles[i].id, y |-> s.marbles[i].y,
                                  mesh |-> s.meshes[i]]),
                   !.marbles = RemoveAt(s.marbles, i)]
    ELSE s

\* if (marble.position.y < -10): the mesh leaves the scene, marble and mesh
\* are spliced out
Retire(s, i) ==
  IF Lt(s.marbles[i].y, FloorY)
    THEN [s EXCEPT !.scene   = s.scene \ {MarbleMesh(s.meshes[i])},
                   !.retired = Append(s.retired,
                                 [id |-> s.marbles[i].id, y |-> s.marbles[i].y,
                                  mesh |-> s.meshes[i]]),
                   !.meshes  = RemoveAt(s.meshes, i),
                   !.marbles = RemoveAt(s.marbles, i)]
    ELSE s

\* The position checkKeyCollisions is called with, kept for the record.
Tested(s, i) ==
  [s EXCEPT !.tested = Append(@, [id |-> s.marbles[i].id, x |-> s.marbles[i].x,
                                  y |-> s.marbles[i].y])]

\* One iteration of the loop of MarblePhysics.update, for marble i.
StepMarble(st, i, dt, hasAudio, data, ra, rb) ==
  Retire(
    Trailed(
      checkKeyCollisions(
        Tested([st EXCEPT !.marbles[i] = Integrate(Influenced(@, hasAudio, data, ra), dt)],
               i),
        i, 1, rb),
      i),
    i)

RECURSIVE StepMarbles(_, _, _, _, _, _, _)
\* The marbles below index i, once marble i is stepped.
StepRest(stepped, i, dt, hasAudio, data, ra, rb) ==
  IF stepped.marbles = <<>> THEN stepped
  ELSE StepMarbles(stepped, i - 1, dt, hasAudio, data, ra, rb)

\* The loop of MarblePhysics.update: from the last marble down to the first.
StepMarbles(st, i, dt, hasAudio, data, ra, rb) ==
  IF i = 0 THEN st
  ELSE StepRest(StepMarble(st, i, dt, hasAudio, data, ra[i], rb[i]),
                i, dt, hasAudio, data, ra, rb)

updateKeyAnimations_never(ks) == ks

\* updateKeyAnimations: isHit of a struck key is cleared once more than 500 ms
\* have passed since hitTime; hitTime is left as it is.
updateKeyAnimations(ks) ==
  [k \in DOMAIN ks |->
     IF ks[k].isHit /\ ks[k].hitAge > HitAnimation
       THEN [ks[k] EXCEPT !.isHit = FALSE] ELSE ks[k]]

\* MarblePhysics.update(deltaTime, audioData)
PhysicsUpdate(st, dt, hasAudio, data, ra, rb) ==
  [StepMarbles(st, Len(st.marbles), dt, hasAudio, data, ra, rb)
     EXCEPT !.keys = updateKeyAnimations(@)]

\* createMarble(startHeight), rx and rv being two values of Math.random() - 0.5
createMarble(st, startHeight, rx, rv) ==
  LET n == st.count + 1
  IN  [st EXCEPT
         !.count   = n,
         !.marbles = Append(st.marbles,
                       [id |-> n, x |-> Times(rx, 200), y |-> startHeight,
                        vx |-> Times(rv, 200), vy |-> 0, bounceCount |-> 0]),
         !.meshes  = Append(st.meshes, n),
         !.scene   = st.scene \cup {MarbleMesh(n)}]

Spawns_volumeOnly(v) == Gt(v.volume, SpawnThreshold)

\* Whether spawnMarbleFromAudio creates a marble.
Spawns(v) == Gt(v.volume, SpawnThreshold) /\ Gt(v.bassLevel, SpawnThreshold)

spawnMarbleFromAudio(st, v, rx, rv) ==
  IF Spawns(v) THEN createMarble(st, Plus(800, Times(v.bassLevel, 500)), rx, rv)
  ELSE st

clearMarbles_keepTrail(st) ==
  [st EXCEPT
     !.scene   = st.scene \ {MarbleMesh(st.meshes[i]) :
                               i \in (1..Len(st.marbles)) \cap DOMAIN st.meshes},
     !.marbles = <<>>,
     !.meshes  = <<>>]

\* clearMarbles: the meshes at the indices of the marbles leave the scene.
clearMarbles(st) ==
  [st EXCEPT
     !.scene   = st.scene \ {MarbleMesh(st.meshes[i]) :
                               i \in (1..Len(st.marbles)) \cap DOMAIN st.meshes},
     !.marbles = <<>>,
     !.meshes  = <<>>,
     !.trail   = <<>>]

\* The MarblePhysics part of the state, and the state with a part replaced.
Physics ==
  [marbles |-> marbles, meshes |-> marbleMeshes, count |-> marbleCount,
   trail |-> trailPoints, keys |-> keys, scene |-> scene, notes |-> <<>>,
   retired |-> <<>>, synth |-> synthReady, ctx |-> FALSE, tested |-> <<>>]

\* Whether an AudioContext can be had during a call, which only a synth
\* without one finds out.
Retries == IF synthReady THEN {FALSE} ELSE BOOLEAN

SetPhysics(st) ==
  /\ marbles' = st.marbles
  /\ marbleMeshes' = st.meshes
  /\ marbleCount' = st.count
  /\ trailPoints' = st.trail
  /\ keys' = st.keys
  /\ synthReady' = st.synth
  /\ scene' = st.scene

(***************************************************************************)
(* AnimationEngine: the effect renderer.  An entry of the effects Map is   *)
(* [id, obj, type, touched]: the key, the number of the THREE object, the  *)
(* variant it was created for and the update routine that last wrote it.   *)
(***************************************************************************)
Variants == {"wave", "particle", "geometric", "fluid", "neural"}
FxObject(n) == [kind |-> "fx", n |-> n]
FxObjects(sc) == {o \in sc : o.kind = "fx"}
MapObjects(fx) == {FxObject(fx[j].obj) : j \in DOMAIN fx}
MapIds(fx) == {fx[j].id : j \in DOMAIN fx}

\* create*Effect: the class of the object made for a variant
ClassOf(type) == IF type \in {"particle", "neural"} THEN "Points" ELSE "Mesh"

\* A number no effect object carries.
FreshObject(fx, sc) ==
  LET used == {o.n : o \in FxObjects(sc) \cup MapObjects(fx)}
  IN  CHOOSE n \in 1..(Cardinality(used) + 1) :
        n \notin used /\ \A k \in 1..(n - 1) : k \in used

\* Map.set: an existing key keeps its place and gets the new value
MapSet(fx, entry) ==
  IF entry.id \in MapIds(fx)
    THEN [j \in DOMAIN fx |-> IF fx[j].id = entry.id THEN entry ELSE fx[j]]
    ELSE Append(fx, entry)

RECURSIVE MapDelete(_, _)
MapDelete(fx, id) ==
  IF fx = <<>> THEN <<>>
  ELSE IF Head(fx).id = id THEN Tail(fx)
  ELSE <<Head(fx)>> \o MapDelete(Tail(fx), id)

\* addEffect(effect) on [effects, scene]
addEffect(es, e) ==
  IF e.type \notin Variants THEN es
  ELSE LET n == FreshObject(es.effects, es.scene)
       IN  [effects |-> MapSet(es.effects,
                          [id |-> e.id, obj |-> n, type |-> e.type,
                           touched |-> "none"]),
            scene   |-> es.scene \cup {FxObject(n)}]

removeFromMap_keepObject(es, id) ==
  [effects |-> MapDelete(es.effects, id), scene |-> es.scene]

\* The first half of removeEffect(id), on [effects, scene]
removeFromMap(es, id) ==
  IF id \in MapIds(es.effects)
    THEN LET entry == CHOOSE x \in {es.effects[j] : j \in DOMAIN es.effects} :
                        x.id = id
         IN  [effects |-> MapDelete(es.effects, id),
              scene   |-> es.scene \ {FxObject(entry.obj)}]
    ELSE es

\* The second half: config.effects.find(e => e.id === id)?.type === 'marble'
RECURSIVE Find(_, _)
Find(cfg, id) ==
  IF cfg = <<>> THEN NULL
  ELSE IF Head(cfg).id = id THEN Head(cfg) ELSE Find(Tail(cfg), id)

ClearsMarbles(cfg, id) == Find(cfg, id) # NULL /\ Find(cfg, id).type = "marble"

\* updateEffect(effect, id): the routine is chosen by the Map key.  The
\* result is the routine that wrote the object, "skip" when the routine's
\* instanceof or uniforms test turned it away or no case matched, "throw"
\* when it read the color attribute of a geometry that has none.
updateEffect(entry) ==
  CASE entry.id = "wave" ->
         IF ClassOf(entry.type) = "Mesh" THEN "wave" ELSE "skip"
    [] entry.id = "particle" ->
         IF ClassOf(entry.type) # "Points" THEN "skip"
         ELSE IF entry.type = "particle" THEN "particle" ELSE "throw"
    [] entry.id = "geometric" ->
         IF ClassOf(entry.type) = "Mesh" THEN "geometric" ELSE "skip"
    [] entry.id = "fluid" ->
         IF entry.type = "fluid" THEN "fluid" ELSE "skip"
    [] entry.id = "neural" ->
         IF ClassOf(entry.type) = "Mesh" THEN "neural" ELSE "skip"
    [] OTHER -> "skip"

RECURSIVE updateEffects(_, _)
\* effects.forEach from entry j on: [effects, threw]
updateEffects(fx, j) ==
  IF j > Len(fx) THEN [effects |-> fx, threw |-> FALSE]
  ELSE LET r == updateEffect(fx[j])
       IN  IF r = "throw" THEN [effects |-> fx, threw |-> TRUE]
           ELSE updateEffects(
                  IF r = "skip" THEN fx ELSE [fx EXCEPT ![j].touched = r], j + 1)

(***************************************************************************)
(* The browser's animation-frame registry                                  *)
(***************************************************************************)
Registered == rafPending \o frameQueue
UsedHandles ==
  {Registered[j].id : j \in DOMAIN Registered}
    \cup {animationId}
    \cup {anAnimationId[i] : i \in Inst}
    \cup {animationFrameRef[i] : i \in Inst}

\* The handles of n successive requestAnimationFrame calls.
RECURSIVE FreshHandles(_, _)
FreshHandles(used, n) ==
  IF n = 0 THEN <<>>
  ELSE LET h == CHOOSE x \in 1..(Cardinality(used) + 1) :
                  x \notin used /\ \A k \in 1..(x - 1) : k \in used
       IN  <<h>> \o FreshHandles(used \cup {h}, n - 1)

Callback(h, fn, i) == [id |-> h, fn |-> fn, inst |-> i]

\* cancelAnimationFrame(h), for a non-null h
Cancel(q, h) == SelectSeq(q, LAMBDA c : c.id # h)

\* The record of a handler's run: the operation and its argument, the steps
\* it took in order, whether it threw (updateAudioData) or cleared the marbles
\* (removeEffect), the vector it used (a tick, updateAudioData), the Map and
\* scene it found (addEffect) or the instance the caller's list holds for the
\* id (removeEffect), and the band levels the physics step computed.
Run(op, arg, steps, flag, used, bands) ==
  [op |-> op, arg |-> arg, steps |-> steps, flag |-> flag,
   used |-> used, bands |-> bands]

(***************************************************************************)
(* AnimationEngine: handlers                                               *)
(***************************************************************************)
RandomDraws == [1..Len(marbles) -> Rands]

AnimateSteps_renderFirst(ad) ==
  IF ad # NULL THEN <<"render", "physics">> ELSE <<"render">>

\* The operations one run of animate performs, in order.
AnimateSteps(ad) == IF ad # NULL THEN <<"physics", "render">> ELSE <<"render">>

\* animate(currentTime), registered with the registrations q still to run
\* in this refresh; dt is currentTime - lastTime.
Animate(op, q, dt, ra, rb, ctx) ==
  LET h  == FreshHandles(UsedHandles, 1)[1]
      st == IF audioData # NULL
              THEN PhysicsUpdate([Physics EXCEPT !.ctx = ctx], dt, TRUE,
                                 FrequencyDataOf(audioData), ra, rb)
              ELSE Physics
  IN  /\ audioData # NULL => Len(trailPoints) + Len(marbles) <= MaxTrail
      /\ animationId' = h
      /\ rafPending' = Append(rafPending, Callback(h, "animate", "canvas"))
      /\ frameQueue' = q
      /\ lastTimeAge' = 0
      /\ SetPhysics(st)
      /\ lastRun' = Run(op, "", AnimateSteps(audioData), FALSE, audioData,
                        IF audioData # NULL /\ marbles # <<>>
                          THEN PhysicsBands(FrequencyDataOf(audioData)) ELSE NULL)
      /\ UNCHANGED <<audioData, effects, inFrame>>

\* useAnimationEngine.start: engine.start(), which runs animate once at
\* once, then setIsPlaying(true)
Start ==
  /\ ~inFrame
  /\ Len(Registered) < MaxPending
  /\ \E ra \in RandomDraws, rb \in RandomDraws, ctx \in Retries :
       Animate("start", frameQueue, 0, ra, rb, ctx)
  /\ engineIsPlaying' = TRUE
  /\ UNCHANGED <<analyzerVars, hookVars, configVars, frameTicks, framePhysics, published>>

\* useAnimationEngine.stop: engine.stop(), then setIsPlaying(false)
Stop ==
  /\ ~inFrame
  /\ rafPending' = IF animationId # 0 THEN Cancel(rafPending, animationId) ELSE rafPending
  /\ animationId' = 0
  /\ engineIsPlaying' = FALSE
  /\ lastRun' = Run("stop", "", <<>>, FALSE, NULL, NULL)
  /\ UNCHANGED <<frameQueue, inFrame, analyzerVars, hookVars, audioData, lastTimeAge,
                 effects, scene, configVars, physicsVars, frameTicks, framePhysics,
                 published>>

\* The display runs a registered animate.
RunAnimate ==
  /\ inFrame /\ frameQueue # <<>> /\ Head(frameQueue).fn = "animate"
  /\ \E ra \in RandomDraws, rb \in RandomDraws, ctx \in Retries :
       Animate("animate", Tail(frameQueue), lastTimeAge, ra, rb, ctx)
  /\ frameTicks' = frameTicks + 1
  /\ framePhysics' = framePhysics + (IF audioData # NULL THEN 1 ELSE 0)
  /\ UNCHANGED published
  /\ UNCHANGED <<analyzerVars, hookVars, engineIsPlaying, configVars>>

\* The operations updateAudioData performs, in order.
UpdateSteps(threw) ==
  IF threw THEN <<"store", "effects">> ELSE <<"store", "effects", "spawn">>

StoreVector_keepFirst(old, v) == IF old = NULL THEN v ELSE old

\* this.audioData = audioData: the one slot the engine keeps a vector in
StoreVector(old, v) == v

\* AnimationEngine.updateAudioData(v)
updateAudioData(v) ==
  LET u == updateEffects(effects, 1)
  IN  /\ audioData' = StoreVector(audioData, v)
      /\ published' = v
      /\ effects' = u.effects
      /\ lastRun' = Run("updateAudioData", "", UpdateSteps(u.threw), u.threw, v, NULL)
      /\ IF u.threw THEN UNCHANGED <<physicsVars, scene>>
         ELSE /\ Spawns(v) => marbleCount < MaxMarbles
              /\ \E rx \in Rands, rv \in Rands :
                   SetPhysics(spawnMarbleFromAudio(Physics, v, rx, rv))

(***************************************************************************)
(* The display                                                             *)
(***************************************************************************)
AgeKeys(ks, dt) ==
  [k \in DOMAIN ks |->
     IF ks[k].isHit
       THEN [ks[k] EXCEPT !.hitAge = IF @ + dt > HitAnimation THEN HitAnimation + 1
                                     ELSE @ + dt]
       ELSE ks[k]]

\* A display refresh begins, dt after the previous one: the registered
\* callbacks become the callbacks of this refresh.
BeginFrame ==
  /\ ~inFrame /\ rafPending # <<>>
  /\ \E dt \in FrameDts :
       /\ lastTimeAge' = dt
       /\ keys' = AgeKeys(keys, dt)
  /\ inFrame' = TRUE
  /\ frameQueue' = rafPending
  /\ rafPending' = <<>>
  /\ frameTicks' = 0
  /\ framePhysics' = 0
  /\ UNCHANGED published
  /\ lastRun' = Run("refresh", "", <<>>, FALSE, NULL, NULL)
  /\ UNCHANGED <<analyzerVars, hookVars, animationId, audioData, effects, scene,
                 engineIsPlaying, configVars, marbles, marbleMeshes, marbleCount,
                 trailPoints, synthReady>>

EndFrame ==
  /\ inFrame /\ frameQueue = <<>>
  /\ inFrame' = FALSE
  /\ UNCHANGED <<rafPending, frameQueue, analyzerVars, hookVars, engineVars,
                 configVars, physicsVars, obsVars>>

(***************************************************************************)
(* AudioAnalyzer and useAudioAnalyzer, instance i.  The state of an        *)
(* analyzer and its hook is [source, isPlaying, animationId, freq, time,   *)
(* buffer, decoding, audioData, hookIsPlaying, ref, error, duration,       *)
(* pending, inst, published]; pending are the registrations for the next   *)
(* refresh, published tells that setAudioData was called.                  *)
(***************************************************************************)
Audio(i, pend) ==
  [source |-> source[i], isPlaying |-> anIsPlaying[i],
   animationId |-> anAnimationId[i], freq |-> frequencyData[i],
   time |-> timeDomainData[i], buffer |-> buffer[i], decoding |-> decoding[i],
   audioData |-> hookAudioData[i],
   hookIsPlaying |-> hookIsPlaying[i], ref |-> animationFrameRef[i],
   error |-> hookError[i], duration |-> hookDuration[i],
   pending |-> pend, inst |-> i, published |-> FALSE]

SetAudio(i, a) ==
  /\ source' = [source EXCEPT ![i] = a.source]
  /\ anIsPlaying' = [anIsPlaying EXCEPT ![i] = a.isPlaying]
  /\ anAnimationId' = [anAnimationId EXCEPT ![i] = a.animationId]
  /\ frequencyData' = [frequencyData EXCEPT ![i] = a.freq]
  /\ timeDomainData' = [timeDomainData EXCEPT ![i] = a.time]
  /\ buffer' = [buffer EXCEPT ![i] = a.buffer]
  /\ decoding' = [decoding EXCEPT ![i] = a.decoding]
  /\ hookError' = [hookError EXCEPT ![i] = a.error]
  /\ hookDuration' = [hookDuration EXCEPT ![i] = a.duration]
  /\ hookAudioData' = [hookAudioData EXCEPT ![i] = a.audioData]
  /\ hookIsPlaying' = [hookIsPlaying EXCEPT ![i] = a.hookIsPlaying]
  /\ animationFrameRef' = [animationFrameRef EXCEPT ![i] = a.ref]
  /\ audioEffectDue' = (audioEffectDue \/ (i = "canvas" /\ a.published))

\* requestAnimationFrame(fn) with handle h
Request(a, h, fn) == [a EXCEPT !.pending = Append(@, Callback(h, fn, a.inst))]

\* analyze(): the body of the analysis loop; f and t are what the analyser
\* node writes into the two arrays
analyze(a, h, f, t) ==
  IF ~a.isPlaying \/ a.freq = NoArray THEN a
  ELSE [Request(a, h, "analyze") EXCEPT !.freq = f, !.time = t, !.animationId = h]

\* stopAnalysis()
stopAnalysis(a) ==
  IF a.animationId # 0
    THEN [a EXCEPT !.pending = Cancel(@, a.animationId), !.animationId = 0]
    ELSE a

\* AudioAnalyzer.play(): source.start() throws on a source started before,
\* which is caught; the analysis starts either way
analyzerPlay(a, h, f, t) ==
  IF a.source = "null" THEN a
  ELSE analyze([a EXCEPT !.source = IF @ = "fresh" THEN "started" ELSE @,
                         !.isPlaying = TRUE], h, f, t)

\* AudioAnalyzer.pause()
analyzerPause(a) ==
  IF a.source # "null" /\ a.isPlaying
    THEN stopAnalysis([a EXCEPT !.source = IF @ = "started" THEN "stopped" ELSE @,
                                !.isPlaying = FALSE])
    ELSE a

\* AudioAnalyzer.stop()
analyzerStop(a) ==
  stopAnalysis([a EXCEPT !.source = "null", !.buffer = "none", !.isPlaying = FALSE])

\* The vector getAudioData returns while the analyzer has no arrays: two
\* new empty arrays and zero levels.
EmptyVector(i) ==
  [ live |-> FALSE, inst |-> i, data |-> <<>>, bassLevel |-> 0, midLevel |-> 0,
    trebleLevel |-> 0, volume |-> 0, beat |-> FALSE ]

getAudioData_unguarded(a) ==
  IF a.freq = NoArray \/ a.time = NoArray THEN OwnVector(<<>>, <<>>)
  ELSE [OwnVector(a.freq, a.time) EXCEPT !.live = TRUE, !.inst = a.inst, !.data = <<>>]

\* getAudioData() in state a: the vector carries the analyzer's own
\* frequencyData array (live |-> TRUE), not a copy of it.
getAudioData(a) ==
  IF a.freq = NoArray \/ a.time = NoArray THEN EmptyVector(a.inst)
  ELSE LET volume == calculateRMS(a.time)
       IN  [ live        |-> TRUE,
             inst        |-> a.inst,
             data        |-> <<>>,
             bassLevel   |-> calculateFrequencyBand(a.freq, 0, 10),
             midLevel    |-> calculateFrequencyBand(a.freq, 10, 50),
             trebleLevel |-> calculateFrequencyBand(a.freq, 50, 100),
             volume      |-> volume,
             beat        |-> detectBeat(volume) ]

\* update(): the body of the hook's publishing loop
update(a, h) ==
  IF ~a.isPlaying THEN a
  ELSE [Request(a, h, "update") EXCEPT !.audioData = getAudioData(a), !.ref = h,
                                !.published = TRUE]

\* stopAudioDataUpdate()
stopAudioDataUpdate(a) ==
  IF a.ref # 0 THEN [a EXCEPT !.pending = Cancel(@, a.ref), !.ref = 0] ELSE a

\* What a handler of instance i leaves alone.
AudioFrame(op) ==
  /\ lastRun' = Run(op, "", <<>>, FALSE, NULL, NULL)
  /\ UNCHANGED <<inFrame, engineVars, configVars, physicsVars, frameTicks,
                 framePhysics, published>>

\* useAudioAnalyzer.play, with room for cap registrations
PlayWithin(i, cap) ==
  /\ ~inFrame
  /\ Len(Registered) + 2 <= cap
  /\ \E f \in Buffers, t \in TimeBuffers :
       LET hs == FreshHandles(UsedHandles, 2)
           a1 == analyzerPlay(Audio(i, rafPending), hs[1], f, t)
           a2 == update([a1 EXCEPT !.hookIsPlaying = TRUE], hs[2])
       IN  SetAudio(i, a2) /\ rafPending' = a2.pending
  /\ UNCHANGED frameQueue
  /\ AudioFrame("play")

Play(i) == PlayWithin(i, MaxPending)

\* useAudioAnalyzer.pause
Pause(i) ==
  /\ ~inFrame
  /\ LET a1 == analyzerPause(Audio(i, rafPending))
         a2 == stopAudioDataUpdate([a1 EXCEPT !.hookIsPlaying = FALSE])
     IN  SetAudio(i, a2) /\ rafPending' = a2.pending
  /\ UNCHANGED frameQueue
  /\ AudioFrame("pause")

\* useAudioAnalyzer.stop
StopAudio(i) ==
  /\ ~inFrame
  /\ LET a1 == analyzerStop(Audio(i, rafPending))
         a2 == stopAudioDataUpdate([a1 EXCEPT !.hookIsPlaying = FALSE])
     IN  SetAudio(i, a2) /\ rafPending' = a2.pending
  /\ UNCHANGED frameQueue
  /\ AudioFrame("stopAudio")

\* What a call of loadAudioFile meets: a browser without an AudioContext, a
\* file that does not decode, or neither.
LoadOutcomes == {"noContext", "badFile", "loaded"}

\* The files a user picks, and the duration of what each decodes to.
Files == {"A", "B"}
Duration(file) == IF file = "A" THEN 3 ELSE 5

\* initAudioContext(): the arrays exist once the context and its nodes do
initAudioContext(a, ok) ==
  IF ok THEN [a EXCEPT !.freq = [j \in 1..Len(Silence) |-> 0],
                       !.time = [j \in 1..Len(Quiet) |-> 0]]
  ELSE a

\* if (!this.audioContext) await this.initAudioContext()
NeedsContext(a) == a.freq = NoArray

\* AudioAnalyzer.loadAudioFile(file) up to its first await: the context is
\* set up again if the constructor could not; the call then waits for the
\* bytes and their decoding.
requestLoad(a, file, ctx) ==
  [(IF NeedsContext(a) THEN initAudioContext(a, ctx) ELSE a)
     EXCEPT !.decoding = Append(@, file)]

\* Whether the j-th waiting call is rejected: without a context, or with bytes
\* that do not decode, it throws before stop().
Rejected(a, ok) == a.freq = NoArray \/ ~ok

finishLoad_stopFirst(a, j, ok) ==
  LET a0 == analyzerStop([a EXCEPT !.decoding = RemoveAt(@, j)])
  IN  IF Rejected(a, ok) THEN a0
      ELSE [a0 EXCEPT !.source = "fresh", !.buffer = a.decoding[j]]

\* The rest of the j-th waiting loadAudioFile call once its decode has
\* settled: stop(), then a new source around the decoded buffer.
finishLoad(a, j, ok) ==
  LET a0 == [a EXCEPT !.decoding = RemoveAt(@, j)]
  IN  IF Rejected(a, ok) THEN a0
      ELSE [analyzerStop(a0) EXCEPT !.source = "fresh", !.buffer = a.decoding[j]]

\* AudioAnalyzer.loadAudioFile(file) whose decode settles before anything
\* else runs.
loadAudioFile(a, file, outcome) ==
  finishLoad(requestLoad(a, file, outcome # "noContext"), Len(a.decoding) + 1,
             outcome = "loaded")

\* getDuration()
getDuration(a) == IF a.source = "null" THEN 0 ELSE Duration(a.buffer)

\* useAudioAnalyzer.loadAudioFile up to the await: setError(null)
hookRequestLoad(a, file, ctx) == [requestLoad(a, file, ctx) EXCEPT !.error = "null"]

\* useAudioAnalyzer.loadAudioFile after the await: setDuration(getDuration())
\* or, in the catch, setError(message)
hookFinishLoad(a, j, ok) ==
  LET a1 == finishLoad(a, j, ok)
  IN  IF Rejected(a, ok)
        THEN [a1 EXCEPT !.error = IF a.freq = NoArray THEN "noContext" ELSE "badFile"]
        ELSE [a1 EXCEPT !.duration = getDuration(a1)]

\* The steps of a load that the record of its run keeps.
LoadSteps(a) == IF NeedsContext(a) THEN <<"initAudioContext">> ELSE <<>>

LoadFrame ==
  UNCHANGED <<frameQueue, inFrame, engineVars, configVars, physicsVars,
              frameTicks, framePhysics, published>>

\* useAudioAnalyzer.loadAudioFile(file), the decode settling at once.
LoadFile(i, files, outcomes) ==
  /\ ~inFrame
  /\ \E file \in files, outcome \in outcomes :
       /\ outcome = "noContext" => frequencyData[i] = NoArray
       /\ LET a0 == Audio(i, rafPending)
              a1 == hookRequestLoad(a0, file, outcome # "noContext")
              a2 == hookFinishLoad(a1, Len(a1.decoding), outcome = "loaded")
          IN  /\ SetAudio(i, a2) /\ rafPending' = a2.pending
              /\ lastRun' = Run("load", outcome, LoadSteps(a0),
                                Rejected(a1, outcome = "loaded"), NULL, NULL)
  /\ LoadFrame

Load(i) == LoadFile(i, {"A"}, LoadOutcomes)

\* useAudioAnalyzer.loadAudioFile(file) is called and waits for the decode.
\* The record of the run holds the analyzer and hook as the call found them.
LoadBegin(i) ==
  /\ ~inFrame
  /\ Len(decoding[i]) < MaxLoads
  /\ \E file \in Files, ctx \in BOOLEAN :
       LET a0 == Audio(i, rafPending)
           a1 == hookRequestLoad(a0, file, ctx)
       IN  /\ SetAudio(i, a1) /\ rafPending' = a1.pending
           /\ lastRun' = Run("loadBegin", file, LoadSteps(a0), FALSE, a0, NULL)
  /\ LoadFrame

\* A decode settles, whichever of the waiting ones, and its call goes on.
LoadEnd(i) ==
  /\ ~inFrame
  /\ \E j \in DOMAIN decoding[i], ok \in BOOLEAN :
       LET a0 == Audio(i, rafPending)
           a1 == hookFinishLoad(a0, j, ok)
       IN  /\ SetAudio(i, a1) /\ rafPending' = a1.pending
           /\ lastRun' = Run("loadEnd",
                             IF a0.freq = NoArray THEN "noContext"
                             ELSE IF ok THEN "loaded" ELSE "badFile",
                             <<j, decoding[i][j]>>, Rejected(a0, ok), a0, NULL)
  /\ LoadFrame

\* The display runs a registered analyze of instance i.
RunAnalyze(i) ==
  /\ inFrame /\ frameQueue # <<>>
  /\ Head(frameQueue).fn = "analyze" /\ Head(frameQueue).inst = i
  /\ \E f \in Buffers, t \in TimeBuffers :
       LET a == analyze(Audio(i, rafPending), FreshHandles(UsedHandles, 1)[1], f, t)
       IN  SetAudio(i, a) /\ rafPending' = a.pending
  /\ frameQueue' = Tail(frameQueue)
  /\ AudioFrame("analyze")

\* The display runs a registered update of instance i.
RunUpdate(i) ==
  /\ inFrame /\ frameQueue # <<>>
  /\ Head(frameQueue).fn = "update" /\ Head(frameQueue).inst = i
  /\ LET a == update(Audio(i, rafPending), FreshHandles(UsedHandles, 1)[1])
     IN  SetAudio(i, a) /\ rafPending' = a.pending
  /\ frameQueue' = Tail(frameQueue)
  /\ AudioFrame("update")

(***************************************************************************)
(* AnimationCanvas                                                         *)
(***************************************************************************)
\* The effect that hands the hook's audioData to the engine, run after the
\* render that follows a setAudioData: if (audioData) updateAudioData(audioData)
AudioEffect ==
  /\ ~inFrame /\ audioEffectDue
  /\ audioEffectDue' = FALSE
  /\ IF hookAudioData["canvas"] # NULL
       THEN updateAudioData(hookAudioData["canvas"])
       ELSE /\ lastRun' = Run("audioEffect", "", <<>>, FALSE, NULL, NULL)
            /\ UNCHANGED <<audioData, effects, scene, physicsVars, published>>
  /\ UNCHANGED <<browserVars, analyzerVars, hookAudioData, hookIsPlaying,
                 animationFrameRef, hookError, hookDuration,
                 animationId, lastTimeAge, engineIsPlaying,
                 configVars, frameTicks, framePhysics>>

\* The effect that starts the animation: if (isInitialized && !isPlaying) start()
AutoStart == ~engineIsPlaying /\ Start

(***************************************************************************)
(* useAnimationEngine: the configuration.  configRef.current starts as the *)
(* object the engine was constructed with.                                 *)
(***************************************************************************)
\* The effect instances a caller passes.
EffectInstances ==
  { [id |-> "wave",     type |-> "wave"],
    [id |-> "effect-1", type |-> "wave"],
    [id |-> "effect-2", type |-> "marble"] }
EffectIds == {e.id : e \in EffectInstances}

HookFrame ==
  UNCHANGED <<browserVars, analyzerVars, hookVars, animationId, audioData,
              lastTimeAge, engineIsPlaying, frameTicks, framePhysics,
              published>>

\* useAnimationEngine.updateConfig: configRef.current becomes a new object
\* that shares the effects array
UpdateConfig ==
  /\ ~inFrame
  /\ sameConfig' = FALSE
  /\ lastRun' = Run("updateConfig", "", <<>>, FALSE, NULL, NULL)
  /\ UNCHANGED <<configEffects, refEffects, sameArray, effects, scene, physicsVars>>
  /\ HookFrame

\* useAnimationEngine.addEffect(e): engine.addEffect(e), then
\* configRef.current.effects.push(e)
AddEffect(e) ==
  /\ ~inFrame
  /\ Len(refEffects) < MaxConfig
  /\ e.type \in Variants => Cardinality(FxObjects(scene)) < MaxObjects
  /\ LET es == addEffect([effects |-> effects, scene |-> scene], e)
     IN  effects' = es.effects /\ scene' = es.scene
  /\ refEffects' = Append(refEffects, e)
  /\ configEffects' = IF sameArray THEN Append(configEffects, e) ELSE configEffects
  /\ lastRun' = Run("addEffect", e.id, <<>>, FALSE,
                    [effects |-> effects, scene |-> scene], NULL)
  /\ UNCHANGED <<sameConfig, sameArray, physicsVars>>
  /\ HookFrame

\* AnimationEngine.removeEffect(id) on the physics state st and the Map fx
removeEffect(st, fx, cfg, id) ==
  LET es == removeFromMap([effects |-> fx, scene |-> st.scene], id)
      s1 == [st EXCEPT !.scene = es.scene]
  IN  [effects |-> es.effects,
       physics |-> IF ClearsMarbles(cfg, id) THEN clearMarbles(s1) ELSE s1]

\* useAnimationEngine.removeEffect(id): engine.removeEffect(id), then
\* configRef.current.effects = configRef.current.effects.filter(...)
RemoveEffect(id) ==
  /\ ~inFrame
  /\ LET r == removeEffect(Physics, effects, configEffects, id)
     IN  effects' = r.effects /\ SetPhysics(r.physics)
  /\ refEffects' = SelectSeq(refEffects, LAMBDA e : e.id # id)
  /\ configEffects' = IF sameConfig THEN refEffects' ELSE configEffects
  /\ sameArray' = sameConfig
  /\ lastRun' = Run("removeEffect", id, <<>>, ClearsMarbles(configEffects, id),
                    Find(refEffects, id), NULL)
  /\ UNCHANGED sameConfig
  /\ HookFrame

\* The vectors a caller of updateAudioData builds itself.
OwnVectors == {OwnVector(Silence, Quiet), OwnVector(Middy, Loud)}

\* useAnimationEngine.updateAudioData(v) with a vector of the caller's own
Deliver ==
  /\ ~inFrame
  /\ \E v \in OwnVectors : updateAudioData(v)
  /\ UNCHANGED <<browserVars, analyzerVars, hookVars, animationId, lastTimeAge,
                 engineIsPlaying, configVars, frameTicks, framePhysics>>

(***************************************************************************)
(* MarblePhysics as its callers drive it: update, spawnMarbleFromAudio,    *)
(* createTestMarble and clearMarbles, called in any order, and time that   *)
(* passes without a call.  The record of a call holds, in used, the        *)
(* object as the call found it (keys already aged to the time of the call),*)
(* the playNote calls it made and the marbles it spliced out.              *)
(***************************************************************************)
\* The vectors a caller passes to spawnMarbleFromAudio: loud with bass, silent
\* with bass, loud over a one-bin spectrum, and the vector of empty arrays.
SpawnVectors ==
  { OwnVector(Middy, Loud), OwnVector(Middy, Quiet), OwnVector(<<40>>, Loud),
    OwnVector(<<>>, <<>>) }

Found(st) ==
  [marbles |-> marbles, meshes |-> marbleMeshes, count |-> marbleCount,
   trail |-> trailPoints, keys |-> st.keys, scene |-> scene,
   notes |-> st.notes, retired |-> st.retired, tested |-> st.tested]

PhysicsFrame ==
  UNCHANGED <<browserVars, analyzerVars, hookVars, animationId, audioData,
              lastTimeAge, effects, engineIsPlaying, configVars, frameTicks,
              framePhysics, published>>

\* update(deltaTime, audioData), deltaTime after the previous call
PhysicsStep(dts, datas) ==
  /\ marbles # <<>> \/ \E k \in DOMAIN keys : keys[k].isHit
  /\ \E dt \in dts, data \in datas, ra \in RandomDraws, rb \in RandomDraws,
        ctx \in Retries :
       LET st == PhysicsUpdate([Physics EXCEPT !.keys = AgeKeys(keys, dt), !.ctx = ctx],
                               dt, TRUE, data, ra, rb)
       IN  /\ SetPhysics(st)
           /\ lastRun' = Run("update", dt, <<>>, FALSE,
                             Found([st EXCEPT !.keys = AgeKeys(keys, dt)]),
                             IF marbles # <<>> THEN PhysicsBands(data) ELSE NULL)
  /\ PhysicsFrame

\* spawnMarbleFromAudio(v)
PhysicsSpawn ==
  /\ \E v \in SpawnVectors, rx \in Rands, rv \in Rands :
       /\ Spawns(v) => marbleCount < MaxCreated
       /\ SetPhysics(spawnMarbleFromAudio(Physics, v, rx, rv))
       /\ lastRun' = Run("spawn", "", <<>>, Spawns(v), Found(Physics), v)
  /\ PhysicsFrame

\* createTestMarble(), Math.random() - 0.5 being drawn from rxs and rvs
CreateWith(rxs, rvs) ==
  /\ marbleCount < MaxCreated
  /\ \E rx \in rxs, rv \in rvs :
       SetPhysics(createMarble(Physics, 1000, rx, rv))
  /\ lastRun' = Run("create", "", <<>>, FALSE, Found(Physics), NULL)
  /\ PhysicsFrame

PhysicsCreate == CreateWith(Rands, Rands)

\* clearMarbles()
PhysicsClear ==
  /\ marbles # <<>> \/ trailPoints # <<>>
  /\ SetPhysics(clearMarbles(Physics))
  /\ lastRun' = Run("clear", "", <<>>, FALSE, Found(Physics), NULL)
  /\ PhysicsFrame

\* Time passes and nothing calls the object.
PhysicsWait ==
  /\ \E k \in DOMAIN keys : keys[k].isHit /\ keys[k].hitAge <= HitAnimation
  /\ \E dt \in FrameDts : keys' = AgeKeys(keys, dt)
  /\ lastRun' = Run("wait", "", <<>>, FALSE, Found(Physics), NULL)
  /\ UNCHANGED <<marbles, marbleMeshes, marbleCount, trailPoints, synthReady, scene>>
  /\ PhysicsFrame

(***************************************************************************)
(* What the most recent handler did                                        *)
(***************************************************************************)
Has(steps, x) == \E j \in DOMAIN steps : steps[j] = x
Before(steps, x, y) ==
  \A i, j \in DOMAIN steps : (steps[i] = x /\ steps[j] = y) => i < j
IsTick == lastRun.op \in {"start", "animate"}

(***************************************************************************)
(* Specifications                                                          *)
(***************************************************************************)
\* The state after construction, f and t being the analyzers' two arrays:
\* the synth has its context when the analyzers have theirs.
Constructed(f, t) ==
  /\ rafPending = <<>> /\ frameQueue = <<>> /\ inFrame = FALSE
  /\ source = [i \in Inst |-> "null"]
  /\ anIsPlaying = [i \in Inst |-> FALSE]
  /\ anAnimationId = [i \in Inst |-> 0]
  /\ frequencyData = [i \in Inst |-> f]
  /\ timeDomainData = [i \in Inst |-> t]
  /\ buffer = [i \in Inst |-> "none"]
  /\ decoding = [i \in Inst |-> <<>>]
  /\ hookError = [i \in Inst |-> "null"]
  /\ hookDuration = [i \in Inst |-> 0]
  /\ hookAudioData = [i \in Inst |-> NULL]
  /\ hookIsPlaying = [i \in Inst |-> FALSE]
  /\ animationFrameRef = [i \in Inst |-> 0]
  /\ audioEffectDue = TRUE
  /\ animationId = 0 /\ audioData = NULL /\ lastTimeAge = 0
  /\ effects = <<>> /\ scene = {} /\ engineIsPlaying = FALSE
  /\ configEffects = <<>> /\ refEffects = <<>>
  /\ sameConfig = TRUE /\ sameArray = TRUE
  /\ marbles = <<>> /\ marbleMeshes = <<>> /\ marbleCount = 0
  /\ trailPoints = <<>>
  /\ keys = [k \in 1..KeyCount |-> [isHit |-> FALSE, hitAge |-> HitAnimation + 1]]
  /\ synthReady = (f # NoArray)
  /\ frameTicks = 0 /\ framePhysics = 0 /\ published = NULL
  /\ lastRun = Run("init", "", <<>>, FALSE, NULL, NULL)

\* The AudioAnalyzer constructor runs initAudioContext: in a browser with an
\* AudioContext the arrays exist from then on, zero-filled.
Init == Constructed(Silence, Quiet)

\* Construction in a browser whose AudioContext cannot be had.
InitNoContext == Constructed(NoArray, NoArray)

\* The pipeline: the transport controls drive the useAudioAnalyzer instance
\* whose audioData AnimationCanvas hands to the engine.
Load_canvas == LoadFile("canvas", {"A"}, {"loaded"})
Play_canvas == Play("canvas")
StopAudio_canvas == StopAudio("canvas")
RunAnalyze_any == \E i \in Inst : RunAnalyze(i)
RunUpdate_any == \E i \in Inst : RunUpdate(i)

Next ==
  \/ BeginFrame \/ RunAnalyze_any \/ RunUpdate_any \/ RunAnimate \/ EndFrame
  \/ Load_canvas \/ Play_canvas \/ StopAudio_canvas
  \/ AudioEffect \/ AutoStart

Spec == Init /\ [][Next]_vars

\* C5: the band levels the physics step of a tick acts on are those of the
\* vector the tick uses, whose bassLevel, volume and beat the effect update
\* and the spawn trigger acted on.
C5_SameSnapshot ==
  lastRun.bands # NULL =>
    /\ lastRun.bands.bassLevel = lastRun.used.bassLevel
    /\ lastRun.bands.midLevel = lastRun.used.midLevel
    /\ lastRun.bands.trebleLevel = lastRun.used.trebleLevel

SchedulerNext ==
  \/ BeginFrame \/ RunAnimate \/ EndFrame \/ Start \/ Stop \/ Deliver

SchedulerSpec == Init /\ [][SchedulerNext]_vars

\* C1: once stop() has returned, no tick executes until start() is called
\* again: a tick run by the display finds the engine started and not stopped
\* since.
C1_NoTickAfterStop == lastRun.op = "animate" => engineIsPlaying

C2_OneTickPerRefresh ==
  (inFrame /\ frameQueue = <<>> /\ engineIsPlaying) =>
    /\ frameTicks = 1
    /\ audioData # NULL => framePhysics = 1

\* The effect renderer behind useAnimationEngine.
AddEffect_any == \E e \in EffectInstances : AddEffect(e)
RemoveEffect_any == \E id \in EffectIds : RemoveEffect(id)

EffectNext ==
  \/ UpdateConfig \/ AddEffect_any \/ RemoveEffect_any \/ Deliver

EffectSpec == Init /\ [][EffectNext]_vars

\* C7: an effect update leaves every live effect instance updated by the
\* routine of its variant, whatever its id.
C7_UpdatedByVariant ==
  (lastRun.op = "updateAudioData" /\ ~lastRun.flag) =>
    \A j \in DOMAIN effects : effects[j].touched = effects[j].type

\* C8: every effect object in the scene is the value of exactly one entry of
\* the Map, and every entry's object is in the scene.
C8_OneToOne ==
  /\ FxObjects(scene) = MapObjects(effects)
  /\ \A i, j \in DOMAIN effects : effects[i].obj = effects[j].obj => i = j

\* C9: removeEffect(id) of an instance that was added with the marble variant
\* leaves no marble and no trail.
C9_MarbleRemovalClears ==
  (lastRun.op = "removeEffect" /\ lastRun.used # NULL
     /\ lastRun.used.type = "marble") =>
    (marbles = <<>> /\ trailPoints = <<>>)

AddThenRemove ==
  /\ lastRun.op = "addEffect" /\ lastRun.used.effects = <<>>
  /\ lastRun'.op = "removeEffect" /\ lastRun'.arg = lastRun.arg
RemoveUnknown == lastRun'.op = "removeEffect" /\ lastRun'.arg \notin MapIds(effects)

Load_app == Load("app")
Play_app == Play("app")
Pause_app == Pause("app")
StopAudio_app == StopAudio("app")

AppNext ==
  \/ BeginFrame \/ RunAnalyze_any \/ RunUpdate_any \/ RunAnimate \/ EndFrame
  \/ Load_app \/ Play_app \/ Pause_app \/ StopAudio_app
  \/ AudioEffect \/ AutoStart

AppSpec ==
  /\ Init /\ [][AppNext]_vars
  /\ WF_vars(BeginFrame) /\ WF_vars(RunAnalyze_any) /\ WF_vars(RunUpdate_any)
  /\ WF_vars(RunAnimate) /\ WF_vars(EndFrame)
  /\ WF_vars(AudioEffect) /\ WF_vars(AutoStart)

\* C4: while the audio loaded through the application plays, the engine's
\* current feature vector eventually becomes non-null.
C4_VectorsReachEngine ==
  anIsPlaying["app"] ~> (audioData # NULL \/ ~anIsPlaying["app"])

(***************************************************************************)
(* MarblePhysics under its callers                                         *)
(***************************************************************************)
Step == PhysicsStep(FrameDts, Buffers)

PhysicsNext ==
  \/ Step
  \/ PhysicsSpawn
  \/ PhysicsCreate
  \/ PhysicsClear
  \/ PhysicsWait
PhysicsSpec == Init /\ [][PhysicsNext]_vars

\* What an update did to the marbles it found.
IsUpdate == lastRun.op = "update"
Ids(ms) == {ms[j].id : j \in DOMAIN ms}
ById(ms, id) == ms[CHOOSE j \in DOMAIN ms : ms[j].id = id]
Strikes(id) == {j \in DOMAIN lastRun.used.notes : lastRun.used.notes[j].marble = id}
RestHeight == KeyY + KeyHeight \div 2 + MarbleRadius

\* C11: in an update in which a marble strikes a key, the marble strikes one
\* key once, is left resting on the key (position.y = key.y + height/2 +
\* radius) and has its bounceCount raised by exactly one; a marble that does
\* not strike keeps its bounceCount.
C11_OneBouncePerStep ==
  IsUpdate =>
    \A id \in Ids(lastRun.used.marbles) :
      LET before == ById(lastRun.used.marbles, id)
      IN  /\ Cardinality(Strikes(id)) <= 1
          /\ Strikes(id) # {} =>
               /\ id \in Ids(marbles)
               /\ ById(marbles, id).y = RestHeight
               /\ ById(marbles, id).bounceCount = before.bounceCount + 1
          /\ (Strikes(id) = {} /\ id \in Ids(marbles)) =>
               ById(marbles, id).bounceCount = before.bounceCount

\* Of two marbles one strikes a key and the other does not.
C11_Witness ==
  /\ IsUpdate
  /\ \E id, other \in Ids(lastRun.used.marbles) :
       Strikes(id) # {} /\ Strikes(other) = {} /\ other \in Ids(marbles)

\* C12: every playNote call of an update passes the synth
\* min(1, |v| / 10), v being the velocity.y the striking marble arrived with.
C12_ArrivalVelocity ==
  IsUpdate =>
    \A j \in DOMAIN lastRun.used.notes :
      lastRun.used.notes[j].velocity =
        Min(MaxVelocity, Abs(lastRun.used.notes[j].arrival) \div 10)

\* C13: an update splices out, with its mesh, exactly the marbles whose
\* position.y it left below the floor, and no other: the marbles after the
\* update are the marbles before without the retired ones, in the same order,
\* the meshes follow them, the retired meshes have left the scene, and no
\* marble is left with position.y below the floor.
C13_RetiredInStep ==
  IsUpdate =>
    LET before  == lastRun.used.marbles
        retired == lastRun.used.retired
        gone    == {retired[j].id : j \in DOMAIN retired}
    IN  /\ \A j \in DOMAIN retired : Lt(retired[j].y, FloorY)
        /\ \A j \in DOMAIN marbles : ~Lt(marbles[j].y, FloorY)
        /\ Len(marbles) = Len(before) - Len(retired)
        /\ Cardinality(gone) = Len(retired)
        /\ [j \in DOMAIN marbles |-> marbles[j].id] =
             [j \in DOMAIN marbles |->
                SelectSeq(before, LAMBDA m : m.id \notin gone)[j].id]
        /\ marbleMeshes = [j \in DOMAIN marbles |-> marbles[j].id]
        /\ \A j \in DOMAIN retired : MarbleMesh(retired[j].mesh) \notin scene
        /\ \A j \in DOMAIN retired : retired[j].mesh = retired[j].id

\* The first of two marbles falls below the floor and the second stays.
C13_Witness ==
  /\ IsUpdate
  /\ Len(lastRun.used.marbles) = 2 /\ Len(lastRun.used.retired) = 1
  /\ lastRun.used.retired[1].id = lastRun.used.marbles[1].id

\* The marbles the most recent update spliced out.
RetiredIds ==
  IF IsUpdate THEN {lastRun.used.retired[j].id : j \in DOMAIN lastRun.used.retired}
  ELSE {}

\* C14: once an update has retired a marble, the marble is never again among
\* the marbles, whatever update, spawn, create and clear calls follow, and no
\* later update integrates it or lets it strike a key.
C14_RetirementTerminal ==
  \A id \in 1..MaxCreated :
    [](id \in RetiredIds =>
         [](/\ id \notin Ids(marbles)
            /\ (IsUpdate /\ id \notin RetiredIds) =>
                 (id \notin Ids(lastRun.used.marbles) /\ Strikes(id) = {})))

\* The second marble is retired while the first goes on.
C14_Witness ==
  /\ 2 \in RetiredIds
  /\ 1 \in Ids(marbles)

\* C15: after clearMarbles there is no marble and no mesh in the arrays, the
\* trail is empty, and the mesh of every marble the call found has left the
\* scene.
C15_ClearEmpties ==
  lastRun.op = "clear" =>
    /\ marbles = <<>> /\ marbleMeshes = <<>>
    /\ trailPoints = <<>>
    /\ \A j \in DOMAIN lastRun.used.marbles :
         MarbleMesh(lastRun.used.marbles[j].id) \notin scene
    /\ \A j \in DOMAIN lastRun.used.meshes :
         MarbleMesh(lastRun.used.meshes[j]) \notin scene

\* clearMarbles with two marbles in the field and a trail.
C15_Witness ==
  /\ lastRun.op = "clear"
  /\ Len(lastRun.used.marbles) = 2
  /\ lastRun.used.trail # <<>>
  /\ \A j \in 1..2 : MarbleMesh(lastRun.used.marbles[j].id) \in lastRun.used.scene

(***************************************************************************)
(* MarblePhysics stepped a hundred times a second: the marbles are         *)
(* created before the first update and fall slowly enough for the trail    *)
(* to fill.                                                                *)
(***************************************************************************)
SlowDts == {1}
SlowStep == PhysicsStep(SlowDts, {Silence})
EarlyCreate == trailPoints = <<>> /\ PhysicsCreate
EarlySpawn == trailPoints = <<>> /\ PhysicsSpawn

TrailNext ==
  \/ SlowStep
  \/ EarlyCreate
  \/ EarlySpawn
  \/ PhysicsClear
TrailSpec == Init /\ [][TrailNext]_vars

\* The last n elements of a sequence.
LastN(seq, n) == SubSeq(seq, Len(seq) - n + 1, Len(seq))

\* C16: the trail never holds more than 100 positions; an update appends one
\* position for each marble it found, from the last marble to the first, and
\* what it keeps of the old trail are the most recent old positions in their
\* old order: the oldest positions are the ones evicted.
C16_TrailFifo ==
  /\ Len(trailPoints) <= TrailCapacity
  /\ IsUpdate =>
       LET old  == lastRun.used.trail
           n    == Len(lastRun.used.marbles)
           kept == Len(trailPoints) - n
       IN  /\ Len(trailPoints) = Min(TrailCapacity, Len(old) + n)
           /\ SubSeq(trailPoints, 1, kept) = LastN(old, kept)
           /\ \A j \in 1..n :
                LET id == lastRun.used.marbles[n - j + 1].id
                IN  id \in Ids(marbles) =>
                      trailPoints[kept + j] =
                        [x |-> ById(marbles, id).x, y |-> ById(marbles, id).y]

\* Two marbles are stepped with the trail full: two positions are evicted.
C16_Witness ==
  /\ IsUpdate
  /\ Len(lastRun.used.trail) = TrailCapacity
  /\ Len(lastRun.used.marbles) = 2
  /\ trailPoints[1] = lastRun.used.trail[3]
  /\ trailPoints[1] # lastRun.used.trail[1]

\* C17: a call of spawnMarbleFromAudio with volume > 0.1 and bassLevel > 0.1
\* appends exactly one new marble, at height 8 + 5 * bassLevel, with its mesh,
\* and leaves the marbles it found as they were; any other call changes
\* nothing.  Each call is judged on its own vector.
C17_SpawnPerCall ==
  lastRun.op = "spawn" =>
    LET v   == lastRun.bands
        pre == lastRun.used
        n   == Len(pre.marbles)
    IN  IF Gt(v.volume, SpawnThreshold) /\ Gt(v.bassLevel, SpawnThreshold)
          THEN /\ Len(marbles) = n + 1
               /\ SubSeq(marbles, 1, n) = pre.marbles
               /\ marbles[n + 1].id \notin Ids(pre.marbles)
               /\ marbles[n + 1].y = Plus(800, Times(v.bassLevel, 500))
               /\ marbleMeshes = Append(pre.meshes, marbles[n + 1].id)
               /\ scene = pre.scene \cup {MarbleMesh(marbles[n + 1].id)}
               /\ trailPoints = pre.trail
          ELSE /\ marbles = pre.marbles /\ marbleMeshes = pre.meshes
               /\ marbleCount = pre.count
               /\ scene = pre.scene /\ trailPoints = pre.trail

\* A second call above both thresholds, with the marble of the first still
\* where it was created, adds a second marble.
C17_Witness ==
  /\ lastRun.op = "spawn"
  /\ Len(lastRun.used.marbles) = 1 /\ Len(marbles) = 2
  /\ lastRun.used.marbles[1].y = marbles[2].y
  /\ lastRun.used.trail = <<>>

\* C18 as stated: a key is never found struck more than 500 ms after its
\* latest strike, whether or not update was called in the meantime.
C18_ResetAfter500 ==
  \A k \in DOMAIN keys : keys[k].isHit => keys[k].hitAge <= HitAnimation

\* C18: an update leaves a key it struck with isHit set and hitTime now;
\* it clears isHit, and leaves hitTime alone, of every other key whose latest
\* strike is more than 500 ms old at the time of the call; it leaves the
\* remaining keys as they are.  No other call and no passing of time
\* changes isHit.
C18_ResetByUpdate ==
  /\ IsUpdate =>
       \A k \in DOMAIN keys :
         LET found  == lastRun.used.keys[k]
             struck == \E j \in DOMAIN lastRun.used.notes : lastRun.used.notes[j].key = k
         IN  IF struck THEN keys[k].isHit /\ keys[k].hitAge = 0
             ELSE IF found.isHit /\ found.hitAge > HitAnimation
               THEN ~keys[k].isHit /\ keys[k].hitAge = found.hitAge
             ELSE keys[k] = found
  /\ lastRun.op \in {"spawn", "create", "clear", "wait"} =>
       \A k \in DOMAIN keys : keys[k].isHit = lastRun.used.keys[k].isHit

\* An update finds a key whose strike is more than 500 ms old and clears it.
C18_Witness ==
  /\ IsUpdate
  /\ \E k \in DOMAIN keys :
       /\ lastRun.used.keys[k].isHit /\ lastRun.used.keys[k].hitAge > HitAnimation
       /\ ~keys[k].isHit

(***************************************************************************)
(* The application's analyzer and its hook, constructed with or without    *)
(* an AudioContext                                                         *)
(***************************************************************************)
AnalyzerNext ==
  \/ BeginFrame
  \/ RunAnalyze_any
  \/ RunUpdate_any
  \/ EndFrame
  \/ Load_app
  \/ Play_app
  \/ Pause_app
  \/ StopAudio_app
AnalyzerSpec == (Init \/ InitNoContext) /\ [][AnalyzerNext]_vars

\* What getAudioData of instance i returns in the current state.
Answer(i) == getAudioData(Audio(i, rafPending))
ZeroVector(v) ==
  /\ v.bassLevel = 0 /\ v.midLevel = 0 /\ v.trebleLevel = 0 /\ v.volume = 0
  /\ v.beat = FALSE

\* C19: getAudioData returns a vector with zero levels and beat false while
\* the analyzer has no arrays (no AudioContext to be had), and from
\* construction on for as long as no source has been loaded: with
\* no source before and after a step, an all-zero answer stays all-zero.
C19_ZeroWithoutAudio ==
  /\ \A i \in Inst : ZeroVector(Answer(i))
  /\ [](\A i \in Inst :
          (frequencyData[i] = NoArray \/ timeDomainData[i] = NoArray) => ZeroVector(Answer(i)))
  /\ [][\A i \in Inst :
          (source[i] = "null" /\ source'[i] = "null" /\ ZeroVector(Answer(i)))
            => ZeroVector(Answer(i))']_vars

\* A load has failed for want of an AudioContext: the analyzer has no arrays
\* and answers with the all-zero vector of empty arrays.
C19_Witness ==
  /\ lastRun.op = "load" /\ lastRun.arg = "noContext"
  /\ frequencyData["app"] = NoArray
  /\ Answer("app") = EmptyVector("app")

(***************************************************************************)
(* MarblePhysics given short arrays: the empty array of the analyzer's     *)
(* vector before its arrays exist, a one-bin and a nine-bin spectrum.      *)
(***************************************************************************)
ShortBuffers == {<<>>, <<40>>, <<20, 40, 40, 40, 40, 20, 20, 20, 20>>}
ShortStep == PhysicsStep(FrameDts, ShortBuffers)

BandNext ==
  \/ ShortStep
  \/ PhysicsSpawn
  \/ PhysicsCreate
  \/ PhysicsClear
BandSpec == Init /\ [][BandNext]_vars

NonNegative(x) == Geq(x, 0)

\* C20: the levels the extractor's functions compute for a vector, and the
\* band levels the physics step computes from the array it is given, are
\* numbers >= 0 whatever the length of the arrays.
C20_LevelsNonNegative ==
  /\ lastRun.op = "spawn" =>
       /\ NonNegative(lastRun.bands.bassLevel)
       /\ NonNegative(lastRun.bands.midLevel)
       /\ NonNegative(lastRun.bands.trebleLevel)
       /\ NonNegative(lastRun.bands.volume)
  /\ (IsUpdate /\ lastRun.bands # NULL) =>
       /\ NonNegative(lastRun.bands.bassLevel)
       /\ NonNegative(lastRun.bands.midLevel)
       /\ NonNegative(lastRun.bands.trebleLevel)

(***************************************************************************)
(* The transport controls on the application's analyzer between two        *)
(* refreshes of the display: files are loaded while others are still being *)
(* decoded, and play, pause and stop are called in any order.              *)
(***************************************************************************)
LoadBegin_app == LoadBegin("app")
LoadEnd_app == LoadEnd("app")

TransportNext ==
  \/ LoadBegin_app
  \/ LoadEnd_app
  \/ Play_app
  \/ Pause_app
  \/ StopAudio_app
TransportSpec == Init /\ [][TransportNext]_vars

\* A load of instance i has just been rejected for bytes that do not decode.
DecodeFailed(i) ==
  /\ lastRun.op = "loadEnd" /\ lastRun.arg = "badFile"
  /\ lastRun.used.inst = i

\* C21: a loadAudioFile whose bytes do not decode is rejected, and leaves the
\* analyzer's source and its buffer, isPlaying, animationId and the
\* registered callbacks as they were when the decode failed; the hook's error
\* is set and its duration is the one it had.
C21_RejectedLoadKeepsState ==
  \A i \in Inst :
    DecodeFailed(i) =>
      /\ lastRun.flag
      /\ source[i] = lastRun.used.source
      /\ buffer[i] = lastRun.used.buffer
      /\ anIsPlaying[i] = lastRun.used.isPlaying
      /\ anAnimationId[i] = lastRun.used.animationId
      /\ rafPending = lastRun.used.pending
      /\ hookError[i] # "null"
      /\ hookDuration[i] = lastRun.used.duration

\* The decode of a second file fails while the first plays.
C21_Witness ==
  /\ DecodeFailed("app")
  /\ lastRun.used.source = "started" /\ lastRun.used.isPlaying
  /\ lastRun.used.animationId # 0
  /\ hookDuration["app"] = Duration(buffer["app"])

\* C23: after play(), pause() or stop(), whose failures to start or stop the
\* source are caught where they occur, isPlaying is true only if the source
\* is playing.
C23_PlayingMeansStarted ==
  \A i \in Inst :
    (lastRun.op \in {"play", "pause", "stopAudio"} /\ anIsPlaying[i]) =>
      source[i] = "started"

(***************************************************************************)
(* MarblePhysics with marbles created across the width of a key and of the *)
(* gap beside it, at rest or moving sideways                               *)
(***************************************************************************)
WideRands == {-50, 0, 38, 49}
WideCreate == CreateWith(WideRands, {0, 49})

CollisionNext ==
  \/ WideCreate
  \/ Step
  \/ PhysicsClear
CollisionSpec == Init /\ [][CollisionNext]_vars

\* The closed intervals [lo1, hi1] and [lo2, hi2] have a point in common.
Overlap(lo1, hi1, lo2, hi2) == Leq(lo1, hi2) /\ Leq(lo2, hi1)

\* The marble's extent at p overlaps the footprint of key k on both axes.
ExtentsOverlap(p, k) ==
  /\ Overlap(p.x - MarbleRadius, p.x + MarbleRadius,
             KeyX(k) - KeyWidth \div 2, KeyX(k) + KeyWidth \div 2)
  /\ Overlap(p.y - MarbleRadius, p.y + MarbleRadius,
             KeyY - KeyHeight \div 2, KeyY + KeyHeight \div 2)

\* C24: an update finds a marble colliding with a key exactly when, at the
\* position the test is made at, [x - radius, x + radius] overlaps the key's
\* width and [y - radius, y + radius] overlaps the key's height.
C24_ExtentOverlap ==
  IsUpdate =>
    \A j \in DOMAIN lastRun.used.tested, k \in 1..KeyCount :
      LET p == lastRun.used.tested[j]
      IN  (\E n \in DOMAIN lastRun.used.notes :
             lastRun.used.notes[n].marble = p.id /\ lastRun.used.notes[n].key = k)
            <=> ExtentsOverlap(p, k)

(***************************************************************************)
(* MarblePhysics as an engine that is stopped and started again drives it: *)
(* the animate call that start() makes itself updates the marbles with no  *)
(* time passed since lastTime was set.                                     *)
(***************************************************************************)
FirstStep == Len(trailPoints) <= MaxTrail /\ PhysicsStep({0}, {Silence})

RestartNext ==
  \/ WideCreate
  \/ Step
  \/ FirstStep
  \/ PhysicsClear
RestartSpec == Init /\ [][RestartNext]_vars

\* min(1, |v| / 10) for the velocity.y a marble arrives with and for the one
\* it rebounds with.
OwnVelocities(note) ==
  { Min(MaxVelocity, Abs(note.arrival) \div 10),
    Min(MaxVelocity, Times(Abs(note.arrival), BounceDamping) \div 10) }

\* C25: the strike velocity of every playNote call of an update is derived
\* from the velocity.y of the marble that struck, as it arrived or as it
\* rebounds, whatever other marbles there are.
C25_OwnVelocity ==
  IsUpdate =>
    \A j \in DOMAIN lastRun.used.notes :
      lastRun.used.notes[j].velocity \in OwnVelocities(lastRun.used.notes[j])

(***************************************************************************)
(* MarblePhysics stepped once a second for ever with a spectrum whose mid  *)
(* band is at 19.6: the impulse of applyAudioInfluence, midLevel * 0.5, is *)
(* then what gravity takes in the step, 9.8 * deltaTime.  The treble       *)
(* varies from step to step.                                               *)
(***************************************************************************)
Hum     == <<0, 1960, 1960, 1960, 1960, 0, 0, 0, 0, 0>>
HumHigh == <<0, 1960, 1960, 1960, 1960, 40, 40, 40, 40, 40>>
HumStep == PhysicsStep(FrameDts, {Hum, HumHigh})

LifeNext ==
  \/ PhysicsClear
  \/ EarlyCreate
  \/ HumStep
\* The frame loop does not stop: while a call is possible, one is made.
LifeSpec == Init /\ [][LifeNext]_vars /\ WF_vars(LifeNext)

\* C26: while update keeps being called with a vector, every marble among
\* the marbles is eventually among them no more.
C26_EventuallyRetired ==
  \A id \in 1..MaxCreated : (id \in Ids(marbles)) ~> (id \notin Ids(marbles))

\* The marble meshes of a scene.
MarbleMeshes(sc) == {o \in sc : o.kind = "marble"}

\* C27: in every state createMarble, update and clearMarbles lead to, marbles
\* and marbleMeshes have the same length, marbleMeshes[i] is the mesh created
\* for marbles[i], no two marbles are the same marble, and the marble meshes
\* in the scene are exactly the meshes of the marbles.
C27_MeshesAligned ==
  /\ Len(marbleMeshes) = Len(marbles)
  /\ \A j \in DOMAIN marbles : marbleMeshes[j] = marbles[j].id
  /\ Cardinality(Ids(marbles)) = Len(marbles)
  /\ MarbleMeshes(scene) = {MarbleMesh(marbles[j].id) : j \in DOMAIN marbles}

\* An update has spliced the first of two marbles out and the second is left
\* with its mesh.
C27_Witness ==
  /\ IsUpdate
  /\ Len(lastRun.used.retired) = 1
  /\ marbleMeshes = <<2>>
  /\ MarbleMeshes(scene) = {MarbleMesh(2)}

(***************************************************************************)
(* The transport controls pressed in any order between display refreshes,  *)
(* play() also while the analyzer is playing.                              *)
(***************************************************************************)
PlayAgain_app == PlayWithin("app", MaxLoops)

LoopNext ==
  \/ BeginFrame
  \/ RunAnalyze_any
  \/ RunUpdate_any
  \/ EndFrame
  \/ Load_app
  \/ PlayAgain_app
  \/ Pause_app
  \/ StopAudio_app
LoopSpec == Init /\ [][LoopNext]_vars

\* The registrations of instance i's callback fn.
Loops(i, fn) ==
  {j \in DOMAIN Registered : Registered[j].fn = fn /\ Registered[j].inst = i}

\* C28: whatever play, pause and stop calls and display refreshes have
\* happened, at most one analyze callback of an analyzer is registered.
C28_OneAnalysisLoop ==
  \A i \in Inst : Cardinality(Loops(i, "analyze")) <= 1

\* C29: after play, pause, stop and a settled loadAudioFile of the hook, the
\* hook's isPlaying is the analyzer's isPlaying, and the hook's update
\* callback is registered exactly when isPlaying is true.
C29_HookAgrees ==
  \A i \in Inst :
    lastRun.op \in {"play", "pause", "stopAudio", "loadEnd"} =>
      /\ hookIsPlaying[i] = anIsPlaying[i]
      /\ (Loops(i, "update") # {}) = hookIsPlaying[i]

\* The load that has just settled was decoded, and was the one requested
\* last among those awaiting their decode.
LatestDecoded(i) ==
  /\ lastRun.op = "loadEnd" /\ ~lastRun.flag
  /\ lastRun.used.inst = i
  /\ lastRun.steps[1] = Len(lastRun.used.decoding)

\* C30: when the decode of the file requested last has settled and the decode
\* of a file requested before it settles next, the source still holds the
\* buffer of the file requested last.
C30_LatestFileWins ==
  [][\A i \in Inst :
       (/\ LatestDecoded(i)
        /\ lastRun'.op = "loadEnd" /\ ~lastRun'.flag
        /\ lastRun'.used.inst = i)
       => buffer'[i] = lastRun.steps[2]]_vars

(***************************************************************************)
(* The analyzer and the synth constructed in a browser whose AudioContext  *)
(* could not be had: files are loaded and marbles strike keys afterwards.  *)
(***************************************************************************)
DisabledNext ==
  \/ Load_app
  \/ PhysicsCreate
  \/ Step
  \/ PhysicsClear
DisabledSpec == InitNoContext /\ [][DisabledNext]_vars

\* C22: once construction has failed to set up the audio context, no later
\* loadAudioFile and no later playNote runs initAudioContext again.
C22_NoRetry ==
  /\ lastRun.op = "load" => ~Has(lastRun.steps, "initAudioContext")
  /\ IsUpdate => \A j \in DOMAIN lastRun.used.notes : ~lastRun.used.notes[j].init

====
